---- MODULE Spec2Model ----
(***************************************************************************)
(* Booking admission of the smart meeting room platform.                   *)
(*                                                                         *)
(* The repository ships two bookings services:                             *)
(*   "legacy"  bookings_service/app/routers/bookings.py  (soft cancel,     *)
(*             no room lookup, status fixed by the column default)         *)
(*   "new"     services/bookings/app.py over common/ (hard delete, room    *)
(*             lookup, status taken from the request body)                 *)
(* Each runs against its own relational store; variant says which one a    *)
(* behaviour is about.  Timestamps are small integers, compared as the     *)
(* code compares datetimes.                                                *)
(***************************************************************************)
EXTENDS Integers, FiniteSets, Sequences, TLC

\* ---- bounds ------------------------------------------------------------
MaxTime == 2
MaxRooms == 2
MaxBookings == 2

Times == 0..MaxTime
RoomIds == 1..MaxRooms
BookingIds == 1..MaxBookings

\* worker threads serving requests at the same time (FastAPI runs the sync
\* handlers in a thread pool)
Procs == {1, 2}

\* Python None in a JSON body (explicit null) for the integer-valued fields
\* and for the string-valued status field.
None == -1
NoneStr == "None"

\* status strings a client can put in a body of the new service
\* (common/schemas.py: status is a free str)
StatusValues == {"confirmed", "cancelled", "pending"}

\* acting identities: user id and role carried by the token / user row
Roles == {"admin", "regular", "facility_manager", "moderator", "auditor", "service"}
Requesters ==
    { [id |-> 1, role |-> "regular"],
      [id |-> 2, role |-> "admin"],
      [id |-> 2, role |-> "facility_manager"] }

VARIABLES
    variant,    \* which bookings service this store belongs to
    bookings,   \* rows of the bookings table
    rooms,      \* rooms table of the common store: id -> "missing" | "active" | "inactive"
    response,   \* what the last finished handler answered
    txn,        \* per worker thread: the request it is in the middle of
    queue,      \* messages published to the durable RabbitMQ queue "bookings"
    room_status_cache,  \* services/rooms: room id -> cached status payload
    now,        \* the clock (datetime.utcnow(), the cache timer)
    users       \* users_service: user id -> the MFA columns of the user row

vars == <<variant, bookings, rooms, response, txn, queue, room_status_cache, now, users>>

\* what the bookings handlers never touch
beyond_bookings == <<queue, room_status_cache, now, users>>

\* ---- the bookings table ------------------------------------------------
\* bookings_service/app/models.py and common/models.py: one row
Booking(id, user_id, room_id, start_time, end_time, status) ==
    [id |-> id, user_id |-> user_id, room_id |-> room_id,
     start_time |-> start_time, end_time |-> end_time, status |-> status]

Max(S) == CHOOSE x \in S : \A y \in S : y <= x

\* INTEGER PRIMARY KEY of the default SQLite store: largest rowid plus one
autoincrement(db) == IF db = {} THEN 1 ELSE Max({b.id : b \in db}) + 1

\* db.query(Booking).filter(Booking.id == booking_id).first()
query_first(db, booking_id) ==
    IF \E b \in db : b.id = booking_id
    THEN {CHOOSE b \in db : b.id = booking_id}
    ELSE {}

\* ---- request bodies ----------------------------------------------------
EmptyDict == [k \in {} |-> 0]
Entry(k, present, v) == IF present THEN k :> v ELSE EmptyDict

\* bookings_service/app/schemas.py BookingCreate: extra keys are ignored
LegacyCreateBodies == [room_id : RoomIds, start_time : Times, end_time : Times]

\* common/schemas.py BookingCreate: status defaults to "confirmed"
NewCreateBodies ==
    [room_id : RoomIds, start_time : Times, end_time : Times, status : StatusValues]

\* booking_update.dict(exclude_unset=True): the keys the client sent, an
\* explicit null kept as None
LegacyUpdateBodies ==
    { Entry("room_id", pr, r) @@ Entry("start_time", ps, s) @@ Entry("end_time", pe, e) :
        pr \in BOOLEAN, r \in RoomIds, ps \in BOOLEAN, s \in Times,
        pe \in BOOLEAN, e \in Times }
    \cup { k :> None : k \in {"room_id", "start_time", "end_time"} }

\* common/schemas.py BookingUpdate adds status; a status key is sent alone
\* or next to one other key
NewUpdateBodies ==
    LegacyUpdateBodies
    \cup { d @@ ("status" :> st) :
             d \in {x \in LegacyUpdateBodies :
                       Cardinality(DOMAIN x) <= 1 /\ \A k \in DOMAIN x : x[k] # None},
             st \in StatusValues }
    \cup { "status" :> NoneStr }

\* data.get(key, default)
Get(data, key, default) == IF key \in DOMAIN data THEN data[key] ELSE default

\* ---- overlap oracle ----------------------------------------------------
\* exclude_id of a call that passes none
NoExclude == 0

\* has_overlap testing only whether an existing booking covers the new start
has_overlap_covers_start(db, room_id, start, end, exclude_id) ==
    \E b \in db :
        /\ b.room_id = room_id
        /\ b.status = "confirmed"
        /\ b.start_time <= start
        /\ b.end_time > start
        /\ (exclude_id # NoExclude => b.id # exclude_id)

\* has_overlap with <= in the first comparison only
has_overlap_end_inclusive(db, room_id, start, end, exclude_id) ==
    \E b \in db :
        /\ b.room_id = room_id
        /\ b.status = "confirmed"
        /\ b.start_time <= end
        /\ b.end_time > start
        /\ (exclude_id # NoExclude => b.id # exclude_id)

\* bookings_service: confirmed rows of the room that intersect [start, end)
has_overlap(db, room_id, start, end, exclude_id) ==
    \E b \in db :
        /\ b.room_id = room_id
        /\ b.status = "confirmed"
        /\ b.start_time < end
        /\ b.end_time > start
        /\ (exclude_id # NoExclude => b.id # exclude_id)

\* _ensure_availability matching only a booking that starts at the same time
_ensure_availability_same_start(db, room_id, start, end, exclude_booking_id) ==
    \E b \in db :
        /\ b.room_id = room_id
        /\ b.start_time = start
        /\ (exclude_booking_id # NoExclude => b.id # exclude_booking_id)

\* _ensure_availability without the room filter
_ensure_availability_any_room(db, room_id, start, end, exclude_booking_id) ==
    \E b \in db :
        /\ b.start_time < end
        /\ b.end_time > start
        /\ (exclude_booking_id # NoExclude => b.id # exclude_booking_id)

\* services/bookings: any row of the room that intersects [start, end);
\* TRUE when the function raises 409
_ensure_availability(db, room_id, start, end, exclude_booking_id) ==
    \E b \in db :
        /\ b.room_id = room_id
        /\ b.start_time < end
        /\ b.end_time > start
        /\ (exclude_booking_id # NoExclude => b.id # exclude_booking_id)

\* ---- shared pieces of the handlers -------------------------------------
\* what a handler does to the store and what it answers
Outcome(result, db) == [result |-> result, db |-> db]

\* permission test that lets only the owner and admins through
not_allowed_admin_only(booking, requester) ==
    /\ booking.user_id # requester.id
    /\ requester.role # "admin"

\* "booking.user_id != requester.id and requester.role not in [admin, facility_manager]"
not_allowed(booking, requester) ==
    /\ booking.user_id # requester.id
    /\ requester.role \notin {"admin", "facility_manager"}

\* new_room_id / new_start / new_end = data.get(key, booking.key)
merged(booking, data) ==
    [room_id |-> Get(data, "room_id", booking.room_id),
     start_time |-> Get(data, "start_time", booking.start_time),
     end_time |-> Get(data, "end_time", booking.end_time)]

\* the attributes of the loaded row whose value an assignment changed: the
\* columns of the UPDATE the unit of work emits at commit
dirty(booking, assigned) ==
    [k \in {f \in DOMAIN assigned : assigned[f] # booking[f]} |-> assigned[k]]

\* a null written to a column (all booking columns are NOT NULL)
is_null(k, v) == IF k = "status" THEN v = NoneStr ELSE v = None

\* db.commit() of an updated row: a NOT NULL violation and a vanished row
\* abort the transaction (500); otherwise the changed columns are written
flush_update(db, id, changes) ==
    IF DOMAIN changes = {} THEN Outcome("OK", db)
    ELSE IF \E k \in DOMAIN changes : is_null(k, changes[k]) THEN Outcome("ServerError", db)
    ELSE IF query_first(db, id) = {} THEN Outcome("ServerError", db)
    ELSE Outcome("OK", { IF b.id = id
                         THEN [f \in DOMAIN b |-> Get(changes, f, b[f])]
                         ELSE b : b \in db })

\* ---- bookings_service (legacy) -----------------------------------------
\* create check with > for >= (an empty interval passes)
bookings_service_create_check_gt(db, booking_in) ==
    IF booking_in.start_time > booking_in.end_time THEN "InvalidRange"
    ELSE IF has_overlap(db, booking_in.room_id, booking_in.start_time,
                        booking_in.end_time, NoExclude) THEN "SlotConflict"
    ELSE "ok"

\* checks of create_booking before the insert
bookings_service_create_check(db, booking_in) ==
    IF booking_in.start_time >= booking_in.end_time THEN "InvalidRange"
    ELSE IF has_overlap(db, booking_in.room_id, booking_in.start_time,
                        booking_in.end_time, NoExclude) THEN "SlotConflict"
    ELSE "ok"

\* db.add(booking); db.commit(): status comes from the column default
bookings_service_create_insert(db, token_data, booking_in) ==
    db \cup { Booking(autoincrement(db), token_data.id, booking_in.room_id,
                      booking_in.start_time, booking_in.end_time, "confirmed") }

\* POST /bookings/ on store db
bookings_service_create_booking(db, token_data, booking_in) ==
    LET r == bookings_service_create_check(db, booking_in) IN
    IF r # "ok" THEN Outcome(r, db)
    ELSE Outcome("Created", bookings_service_create_insert(db, token_data, booking_in))

\* update check that scans the booking's current room, not the merged one
bookings_service_update_check_old_room(db, token_data, booking_id, data) ==
    LET found == query_first(db, booking_id) IN
    IF found = {} THEN "NotFound"
    ELSE LET booking == CHOOSE b \in found : TRUE
             m == merged(booking, data) IN
         IF not_allowed(booking, token_data) THEN "Forbidden"
         ELSE IF m.start_time = None \/ m.end_time = None THEN "ServerError"
         ELSE IF m.start_time >= m.end_time THEN "InvalidRange"
         ELSE IF has_overlap(db, booking.room_id, m.start_time, m.end_time, booking.id)
         THEN "SlotConflict"
         ELSE "ok"

\* checks of update_booking before the assignments
bookings_service_update_check(db, token_data, booking_id, data) ==
    LET found == query_first(db, booking_id) IN
    IF found = {} THEN "NotFound"
    ELSE LET booking == CHOOSE b \in found : TRUE
             m == merged(booking, data) IN
         IF not_allowed(booking, token_data) THEN "Forbidden"
         \* comparing a datetime with None raises TypeError
         ELSE IF m.start_time = None \/ m.end_time = None THEN "ServerError"
         ELSE IF m.start_time >= m.end_time THEN "InvalidRange"
         ELSE IF has_overlap(db, m.room_id, m.start_time, m.end_time, booking.id)
         THEN "SlotConflict"
         ELSE "ok"

\* booking.room_id = new_room_id; booking.start_time = ...; booking.end_time = ...
bookings_service_update_changes(booking, data) == dirty(booking, merged(booking, data))

\* PUT /bookings/{booking_id} on store db
bookings_service_update_booking(db, token_data, booking_id, data) ==
    LET r == bookings_service_update_check(db, token_data, booking_id, data) IN
    IF r # "ok" THEN Outcome(r, db)
    ELSE LET booking == CHOOSE b \in query_first(db, booking_id) : TRUE IN
         flush_update(db, booking_id, bookings_service_update_changes(booking, data))

\* DELETE /bookings/{booking_id} on store db: soft cancel
bookings_service_cancel_booking(db, token_data, booking_id) ==
    LET found == query_first(db, booking_id) IN
    IF found = {} THEN Outcome("NotFound", db)
    ELSE LET booking == CHOOSE b \in found : TRUE IN
         IF not_allowed(booking, token_data) THEN Outcome("Forbidden", db)
         ELSE Outcome("NoContent",
                      (db \ {booking}) \cup {[booking EXCEPT !.status = "cancelled"]})

\* GET /bookings/availability on store db
bookings_service_check_availability(db, room_id, start_time, end_time) ==
    Outcome(IF has_overlap(db, room_id, start_time, end_time, NoExclude)
            THEN "Unavailable" ELSE "Available", db)

\* ---- services/bookings (new) -------------------------------------------
\* db.query(Room).filter(Room.id == room_id, Room.is_active.is_(True)).first()
active_room(rms, room_id) == room_id \in DOMAIN rms /\ rms[room_id] = "active"

\* create check with the room lookup moved before the range check
services_bookings_create_check_room_first(db, rms, booking_in) ==
    IF ~active_room(rms, booking_in.room_id) THEN "RoomUnavailable"
    ELSE IF booking_in.end_time <= booking_in.start_time THEN "InvalidRange"
    ELSE IF _ensure_availability(db, booking_in.room_id, booking_in.start_time,
                                 booking_in.end_time, NoExclude) THEN "SlotConflict"
    ELSE "ok"

\* checks of create_booking before the insert
services_bookings_create_check(db, rms, booking_in) ==
    IF booking_in.end_time <= booking_in.start_time THEN "InvalidRange"
    ELSE IF ~active_room(rms, booking_in.room_id) THEN "RoomUnavailable"
    ELSE IF _ensure_availability(db, booking_in.room_id, booking_in.start_time,
                                 booking_in.end_time, NoExclude) THEN "SlotConflict"
    ELSE "ok"

\* Booking(user_id=current_user.id, **booking_in.model_dump())
services_bookings_create_insert(db, current_user, booking_in) ==
    db \cup { Booking(autoincrement(db), current_user.id, booking_in.room_id,
                      booking_in.start_time, booking_in.end_time, booking_in.status) }

\* POST /bookings on store db and rooms table rms
services_bookings_create_booking(db, rms, current_user, booking_in) ==
    LET r == services_bookings_create_check(db, rms, booking_in) IN
    IF r # "ok" THEN Outcome(r, db)
    ELSE Outcome("Created", services_bookings_create_insert(db, current_user, booking_in))

\* checks of update_booking before the assignments
services_bookings_update_check(db, current_user, booking_id, data) ==
    LET found == query_first(db, booking_id) IN
    IF found = {} THEN "NotFound"
    ELSE LET booking == CHOOSE b \in found : TRUE
             m == merged(booking, data) IN
         IF not_allowed(booking, current_user) THEN "Forbidden"
         \* comparing a datetime with None raises TypeError
         ELSE IF m.start_time = None \/ m.end_time = None THEN "ServerError"
         ELSE IF m.end_time <= m.start_time THEN "InvalidRange"
         ELSE IF _ensure_availability(db, m.room_id, m.start_time, m.end_time, booking.id)
         THEN "SlotConflict"
         ELSE "ok"

\* for key, value in data.items(): setattr(booking, key, value)
services_bookings_update_changes(booking, data) == dirty(booking, data)

\* PUT /bookings/{booking_id} on store db
services_bookings_update_booking(db, current_user, booking_id, data) ==
    LET r == services_bookings_update_check(db, current_user, booking_id, data) IN
    IF r # "ok" THEN Outcome(r, db)
    ELSE LET booking == CHOOSE b \in query_first(db, booking_id) : TRUE IN
         flush_update(db, booking_id, services_bookings_update_changes(booking, data))

\* delete that answers 204 for an id it does not find
services_bookings_delete_booking_silent(db, current_user, booking_id) ==
    LET found == query_first(db, booking_id) IN
    IF found = {} THEN Outcome("NoContent", db)
    ELSE LET booking == CHOOSE b \in found : TRUE IN
         IF not_allowed(booking, current_user) THEN Outcome("Forbidden", db)
         ELSE Outcome("NoContent", db \ {booking})

\* DELETE /bookings/{booking_id} on store db: the row is removed
services_bookings_delete_booking(db, current_user, booking_id) ==
    LET found == query_first(db, booking_id) IN
    IF found = {} THEN Outcome("NotFound", db)
    ELSE LET booking == CHOOSE b \in found : TRUE IN
         IF not_allowed(booking, current_user) THEN Outcome("Forbidden", db)
         ELSE Outcome("NoContent", db \ {booking})

\* availability check that holds the slot it found free
services_bookings_check_availability_hold(db, room_id, start_time, end_time) ==
    IF _ensure_availability(db, room_id, start_time, end_time, NoExclude)
    THEN Outcome("SlotConflict", db)
    ELSE Outcome("Available",
                 db \cup {Booking(autoincrement(db), 1, room_id, start_time, end_time,
                                  "pending")})

\* GET /bookings/availability on store db: 409 or {"available": true}
services_bookings_check_availability(db, room_id, start_time, end_time) ==
    Outcome(IF _ensure_availability(db, room_id, start_time, end_time, NoExclude)
            THEN "SlotConflict" ELSE "Available", db)

\* ---- services/rooms: the rooms table the new bookings service reads ----
\* SimpleTTLCache: an entry is gone ttl after it was set
NoPayload == [status |-> "none", checked_at |-> None]
room_cache_ttl == 1

EmptyCache == [r \in RoomIds |-> NoPayload]

\* room_status_cache.get(key)
cache_get(cache, room_id, t) ==
    IF cache[room_id] # NoPayload /\ t < cache[room_id].checked_at + room_cache_ttl
    THEN cache[room_id]
    ELSE NoPayload

\* room_status_cache.set(key, payload)
cache_set(cache, room_id, payload) == [cache EXCEPT ![room_id] = payload]

\* _invalidate_room_cache(room_id)
_invalidate_room_cache(cache, room_id) == [cache EXCEPT ![room_id] = NoPayload]

insufficient_permissions(current_user) ==
    current_user.role \notin {"admin", "facility_manager"}

room_autoincrement(rms) ==
    IF \A r \in DOMAIN rms : rms[r] = "missing" THEN 1
    ELSE Max({r \in DOMAIN rms : rms[r] # "missing"}) + 1

\* ---- users_service: the user rows -----------------------------------
UserIds == {1}

\* generate_mfa_secret(): pyotp.random_base32()
Secrets == {"s1", "s2"}

\* a six-digit code: the current code of a secret, or one that matches none
Codes == Secrets \cup {"000000"}

\* a registered user: MFA off, no secret
NewUser == [mfa_enabled |-> FALSE, mfa_secret |-> NoneStr]

\* ---- sequential system: every handler runs to completion ---------------
\* The one client sends a request (to the bookings or to the rooms service)
\* when it has read the answer of the previous one; response is the answer
\* of the bookings service it has not read yet.
NoResponse == [op |-> "none", result |-> "none"]
Idle == [pc |-> "idle"]

Init ==
    /\ variant \in {"legacy", "new"}
    /\ bookings = {}
    /\ rooms = [r \in RoomIds |-> "missing"]
    /\ response = NoResponse
    /\ txn = [p \in Procs |-> Idle]
    /\ queue = << >>
    /\ room_status_cache = EmptyCache
    /\ now = 0
    /\ users = [u \in UserIds |-> NewUser]

\* a handler ran on the store and answered
Handle(op, outcome) ==
    /\ response = NoResponse
    /\ \A b \in outcome.db : b.id \in BookingIds
    /\ bookings' = outcome.db
    /\ response' = [op |-> op, result |-> outcome.result]
    /\ UNCHANGED <<variant, rooms, txn>>
    /\ UNCHANGED beyond_bookings

LegacyCreate ==
    /\ variant = "legacy"
    /\ \E u \in Requesters, b \in LegacyCreateBodies :
          Handle("create", bookings_service_create_booking(bookings, u, b))

LegacyUpdate ==
    /\ variant = "legacy"
    /\ \E u \in Requesters, id \in BookingIds, d \in LegacyUpdateBodies :
          Handle("update", bookings_service_update_booking(bookings, u, id, d))

LegacyCancel ==
    /\ variant = "legacy"
    /\ \E u \in Requesters, id \in BookingIds :
          Handle("cancel", bookings_service_cancel_booking(bookings, u, id))

LegacyAvailability ==
    /\ variant = "legacy"
    /\ \E r \in RoomIds, s \in Times, e \in Times :
          Handle("availability", bookings_service_check_availability(bookings, r, s, e))

NewCreate ==
    /\ variant = "new"
    /\ \E u \in Requesters, b \in NewCreateBodies :
          Handle("create", services_bookings_create_booking(bookings, rooms, u, b))

NewUpdate ==
    /\ variant = "new"
    /\ \E u \in Requesters, id \in BookingIds, d \in NewUpdateBodies :
          Handle("update", services_bookings_update_booking(bookings, u, id, d))

NewDelete ==
    /\ variant = "new"
    /\ \E u \in Requesters, id \in BookingIds :
          Handle("cancel", services_bookings_delete_booking(bookings, u, id))

NewAvailability ==
    /\ variant = "new"
    /\ \E r \in RoomIds, s \in Times, e \in Times :
          Handle("availability", services_bookings_check_availability(bookings, r, s, e))

\* services/rooms handlers; the role check and the 404 are the guards (a
\* rejected rooms request changes nothing the bookings service reads)
add_room ==
    /\ variant = "new"
    /\ response = NoResponse
    /\ \E current_user \in Requesters, is_active \in BOOLEAN :
          /\ ~insufficient_permissions(current_user)
          /\ room_autoincrement(rooms) \in RoomIds
          /\ rooms' = [rooms EXCEPT ![room_autoincrement(rooms)] =
                           IF is_active THEN "active" ELSE "inactive"]
          /\ room_status_cache' =
                 _invalidate_room_cache(room_status_cache, room_autoincrement(rooms))
    /\ UNCHANGED <<variant, bookings, response, txn, queue, now, users>>

\* setattr(room, "is_active", value)
update_room ==
    /\ variant = "new"
    /\ response = NoResponse
    /\ \E current_user \in Requesters, room_id \in RoomIds, is_active \in BOOLEAN :
          /\ ~insufficient_permissions(current_user)
          /\ rooms[room_id] # "missing"
          /\ rooms' = [rooms EXCEPT ![room_id] = IF is_active THEN "active" ELSE "inactive"]
          /\ room_status_cache' = _invalidate_room_cache(room_status_cache, room_id)
    /\ UNCHANGED <<variant, bookings, response, txn, queue, now, users>>

\* db.delete(room) nullifies bookings.room_id of the room's rows, a NOT NULL
\* column, so the delete of a room that has bookings aborts
delete_room ==
    /\ variant = "new"
    /\ response = NoResponse
    /\ \E current_user \in Requesters, room_id \in RoomIds :
          /\ ~insufficient_permissions(current_user)
          /\ rooms[room_id] # "missing"
          /\ ~ \E b \in bookings : b.room_id = room_id
          /\ rooms' = [rooms EXCEPT ![room_id] = "missing"]
          /\ room_status_cache' = _invalidate_room_cache(room_status_cache, room_id)
    /\ UNCHANGED <<variant, bookings, response, txn, queue, now, users>>

\* the client reads the answer of its request (response = client.post(...))
receive_response ==
    /\ response # NoResponse
    /\ response' = NoResponse
    /\ UNCHANGED <<variant, bookings, rooms, txn>>
    /\ UNCHANGED beyond_bookings

Next ==
    \/ LegacyCreate
    \/ LegacyUpdate
    \/ LegacyCancel
    \/ LegacyAvailability
    \/ NewCreate
    \/ NewUpdate
    \/ NewDelete
    \/ NewAvailability
    \/ add_room
    \/ update_room
    \/ delete_room
    \/ receive_response

Spec == Init /\ [][Next]_vars

TypeOK ==
    /\ variant \in {"legacy", "new"}
    /\ \A b \in bookings :
          /\ b.id \in BookingIds
          /\ b.user_id \in {u.id : u \in Requesters}
          /\ b.room_id \in RoomIds
          /\ b.start_time \in Times
          /\ b.end_time \in Times
    /\ \A r \in RoomIds : rooms[r] \in {"missing", "active", "inactive"}

\* ---- concurrent system: worker threads interleave at the store calls ----
\* A handler's overlap query and its commit are two calls to the store with
\* no lock between them (neither service opens the transaction with a lock
\* or declares an exclusion constraint), so another worker's calls can run
\* between them.  txn[p] is where worker p is in its handler; the store is
\* taken with both rooms in service, a state of the sequential system.
RaceRequesters == { [id |-> 1, role |-> "regular"] }

RaceCreateBodies ==
    [room_id : RoomIds, start_time : Times, end_time : Times, status : {"confirmed"}]

\* patches of one key, or of start_time and end_time together; the answer
\* of an update keeps the booking id and the keys of the patch
RaceUpdateBodies ==
    { d \in LegacyUpdateBodies :
        /\ \A k \in DOMAIN d : d[k] # None
        /\ \/ Cardinality(DOMAIN d) = 1
           \/ DOMAIN d = {"start_time", "end_time"} }

RaceInit ==
    /\ variant \in {"legacy", "new"}
    /\ bookings = {}
    /\ rooms = [r \in RoomIds |-> "active"]
    /\ response = NoResponse
    /\ txn = [p \in Procs |-> Idle]
    /\ queue = << >>
    /\ room_status_cache = EmptyCache
    /\ now = 0
    /\ users = [u \in UserIds |-> NewUser]

Checked(op, user, req, changes) ==
    [pc |-> "checked", op |-> op, user |-> user, req |-> req, changes |-> changes]
Done(op, req, result) == [pc |-> "done", op |-> op, req |-> req, result |-> result]

\* the checks of create_booking, up to and including the overlap query
create_scan(p) ==
    /\ txn[p].pc = "idle"
    /\ \E u \in RaceRequesters, b \in RaceCreateBodies :
          LET r == IF variant = "legacy"
                   THEN bookings_service_create_check(bookings, b)
                   ELSE services_bookings_create_check(bookings, rooms, b) IN
          txn' = [txn EXCEPT ![p] = IF r = "ok" THEN Checked("create", u, b, EmptyDict)
                                    ELSE Done("create", b, r)]
    /\ UNCHANGED <<variant, bookings, rooms, response>>
    /\ UNCHANGED beyond_bookings

\* db.add(booking); db.commit()
create_commit(p) ==
    /\ txn[p].pc = "checked" /\ txn[p].op = "create"
    /\ autoincrement(bookings) \in BookingIds
    /\ bookings' = IF variant = "legacy"
                   THEN bookings_service_create_insert(bookings, txn[p].user, txn[p].req)
                   ELSE services_bookings_create_insert(bookings, txn[p].user, txn[p].req)
    /\ txn' = [txn EXCEPT ![p] = Done("create", txn[p].req, "Created")]
    /\ UNCHANGED <<variant, rooms, response>>
    /\ UNCHANGED beyond_bookings

\* update_booking from the load of the row to the overlap query; the
\* assignments to the loaded row follow without a store call
update_scan(p) ==
    /\ txn[p].pc = "idle"
    /\ \E u \in RaceRequesters, id \in BookingIds, d \in RaceUpdateBodies :
          LET r == IF variant = "legacy"
                   THEN bookings_service_update_check(bookings, u, id, d)
                   ELSE services_bookings_update_check(bookings, u, id, d)
              req == [id |-> id, patch |-> DOMAIN d] IN
          IF r # "ok"
          THEN txn' = [txn EXCEPT ![p] = Done("update", req, r)]
          ELSE LET booking == CHOOSE b \in query_first(bookings, id) : TRUE
                   changes == IF variant = "legacy"
                              THEN bookings_service_update_changes(booking, d)
                              ELSE services_bookings_update_changes(booking, d) IN
               txn' = [txn EXCEPT ![p] = Checked("update", u, req, changes)]
    /\ UNCHANGED <<variant, bookings, rooms, response>>
    /\ UNCHANGED beyond_bookings

\* db.commit() of update_booking
update_commit(p) ==
    /\ txn[p].pc = "checked" /\ txn[p].op = "update"
    /\ LET w == flush_update(bookings, txn[p].req.id, txn[p].changes) IN
       /\ bookings' = w.db
       /\ txn' = [txn EXCEPT ![p] = Done("update", txn[p].req, w.result)]
    /\ UNCHANGED <<variant, rooms, response>>
    /\ UNCHANGED beyond_bookings

\* the worker has sent its answer and takes the next request
finish(p) ==
    /\ txn[p].pc = "done"
    /\ txn' = [txn EXCEPT ![p] = Idle]
    /\ UNCHANGED <<variant, bookings, rooms, response>>
    /\ UNCHANGED beyond_bookings

RaceNext ==
    \E p \in Procs :
        \/ create_scan(p)
        \/ create_commit(p)
        \/ update_scan(p)
        \/ update_commit(p)
        \/ finish(p)

SpecRace == RaceInit /\ [][RaceNext]_vars

\* ======================= claims =========================================
\* spec 4.1: half-open intervals [s1, e1) and [s2, e2) share an instant
Overlaps(s1, e1, s2, e2) == s1 < e2 /\ e1 > s2

\* some confirmed booking of the room, other than booking id exclude,
\* overlaps [start, end)
ConfirmedOverlap(db, room_id, start, end, exclude) ==
    \E x \in db :
        /\ x.room_id = room_id
        /\ x.status = "confirmed"
        /\ x.id # exclude
        /\ Overlaps(x.start_time, x.end_time, start, end)

TwoConfirmedInOneRoom ==
    \E a, b \in bookings :
        a.id # b.id /\ a.room_id = b.room_id
        /\ a.status = "confirmed" /\ b.status = "confirmed"

\* what the create handler of the running service does with a body in the
\* current state
CreateBodies == IF variant = "legacy" THEN LegacyCreateBodies ELSE NewCreateBodies
CreateOutcome(u, b) ==
    IF variant = "legacy"
    THEN bookings_service_create_booking(bookings, u, b)
    ELSE services_bookings_create_booking(bookings, rooms, u, b)

\* C1: in every state reached by create, update and cancel run one after the
\* other, two distinct confirmed bookings of one room never overlap.
C1_NoConfirmedOverlap ==
    \A a, b \in bookings :
        (a.id # b.id /\ a.room_id = b.room_id
         /\ a.status = "confirmed" /\ b.status = "confirmed")
        => ~Overlaps(a.start_time, a.end_time, b.start_time, b.end_time)

\* two confirmed bookings share a room right after an update went through
C1_Witness ==
    /\ response = [op |-> "update", result |-> "OK"]
    /\ TwoConfirmedInOneRoom

\* C2: of two creates for one room with overlapping intervals that run at
\* the same time, at most one is answered Created and the room never holds
\* a confirmed row for each of them.
C2_OneCreateWins ==
    \A p, q \in Procs :
        (/\ p # q
         /\ txn[p].pc = "done" /\ txn[p].op = "create"
         /\ txn[q].pc = "done" /\ txn[q].op = "create"
         /\ txn[p].req.room_id = txn[q].req.room_id
         /\ Overlaps(txn[p].req.start_time, txn[p].req.end_time,
                     txn[q].req.start_time, txn[q].req.end_time))
        => ~ /\ txn[p].result = "Created"
             /\ txn[q].result = "Created"
             /\ \E a, b \in bookings :
                   /\ a.id # b.id
                   /\ a.status = "confirmed" /\ b.status = "confirmed"
                   /\ a.room_id = txn[p].req.room_id /\ b.room_id = txn[q].req.room_id
                   /\ a.start_time = txn[p].req.start_time
                   /\ a.end_time = txn[p].req.end_time
                   /\ b.start_time = txn[q].req.start_time
                   /\ b.end_time = txn[q].req.end_time

\* C3: an update that was answered OK leaves its booking free of overlap
\* with every other confirmed booking of its room, whatever other request
\* ran at the same time.
C3_UpdateAtomicWithCheck ==
    \A p \in Procs :
        (txn[p].pc = "done" /\ txn[p].op = "update" /\ txn[p].result = "OK")
        => \A a, b \in bookings :
              (/\ a.id = txn[p].req.id /\ b.id # a.id
               /\ a.room_id = b.room_id
               /\ a.status = "confirmed" /\ b.status = "confirmed")
              => ~Overlaps(a.start_time, a.end_time, b.start_time, b.end_time)

\* C4: every stored booking has start_time < end_time, in every state
\* reached by create, update and cancel run one after the other.
C4_StartBeforeEnd == \A b \in bookings : b.start_time < b.end_time

\* a stored booking whose times an update has just changed
C4_Witness ==
    /\ response = [op |-> "update", result |-> "OK"]
    /\ \E b \in bookings : b.start_time = 1 /\ b.end_time = 2

\* C5: the conflict predicate of the running service reports a conflict for
\* (room, start, end, excluded id) exactly when a confirmed booking of the
\* room other than the excluded one overlaps [start, end).
C5_ConflictIffConfirmedOverlap ==
    \A r \in RoomIds, s \in Times, e \in Times, x \in {NoExclude} \cup BookingIds :
        (IF variant = "legacy"
         THEN has_overlap(bookings, r, s, e, x)
         ELSE _ensure_availability(bookings, r, s, e, x))
        <=> ConfirmedOverlap(bookings, r, s, e, x)

\* C6: a create whose interval overlaps a confirmed booking of the room is
\* rejected and leaves the store as it was; it is rejected with SlotConflict
\* when the request passes the input constraints (start < end, and for the
\* service that looks the room up, room in service).
C6_OverlappingCreateRejected ==
    \A u \in Requesters, b \in CreateBodies :
        ConfirmedOverlap(bookings, b.room_id, b.start_time, b.end_time, NoExclude)
        => LET o == CreateOutcome(u, b) IN
           /\ o.db = bookings
           /\ o.result # "Created"
           /\ (b.start_time < b.end_time
               /\ (variant = "new" => rooms[b.room_id] = "active"))
              => o.result = "SlotConflict"

\* a create was answered SlotConflict while the room held a confirmed booking
C6_Witness ==
    /\ response = [op |-> "create", result |-> "SlotConflict"]
    /\ \E x \in bookings : x.status = "confirmed"

\* C7: a create with start >= end is answered InvalidRange and stores
\* nothing, whatever the rooms table and the store hold.
C7_InvalidRangeWhateverRoom ==
    \A u \in Requesters, b \in CreateBodies :
        b.start_time >= b.end_time
        => LET o == CreateOutcome(u, b) IN
           o.result = "InvalidRange" /\ o.db = bookings

\* InvalidRange was answered by the service that looks rooms up, with a room
\* out of service, a room missing and a booking stored
C7_Witness ==
    /\ variant = "new"
    /\ response = [op |-> "create", result |-> "InvalidRange"]
    /\ \E r \in RoomIds : rooms[r] = "inactive"
    /\ \E r \in RoomIds : rooms[r] = "missing"
    /\ bookings # {}

\* C8: a create (with start < end) for a room that is missing or not active
\* is answered RoomUnavailable and stores nothing, and a create is answered
\* Created only for a room that exists and is active.
C8_RoomMustBeActive ==
    \A u \in Requesters, b \in CreateBodies :
        LET o == CreateOutcome(u, b) IN
        /\ (b.start_time < b.end_time /\ rooms[b.room_id] # "active")
           => (o.result = "RoomUnavailable" /\ o.db = bookings)
        /\ o.result = "Created" => rooms[b.room_id] = "active"

\* C9: a create answered Created adds exactly one row, with an id no stored
\* booking has, status confirmed, the requester as user_id and the room,
\* start and end of the request, whatever else the body carries.
C9_CreateStoresConfirmedRow ==
    \A u \in Requesters, b \in CreateBodies :
        LET o == CreateOutcome(u, b) IN
        o.result = "Created"
        => \E row \in o.db :
              /\ o.db = bookings \cup {row}
              /\ \A x \in bookings : x.id # row.id
              /\ row.status = "confirmed"
              /\ row.user_id = u.id
              /\ row.room_id = b.room_id
              /\ row.start_time = b.start_time
              /\ row.end_time = b.end_time

\* C10: a stored booking with status cancelled never blocks its slot: when
\* no confirmed booking of its room overlaps its interval, the slot is
\* reported available and a create for the same room and interval (room in
\* service) is answered Created.
C10_CancelledNeverConflicts ==
    \A x \in bookings :
        (/\ x.status = "cancelled"
         /\ x.start_time < x.end_time
         /\ ~ConfirmedOverlap(bookings, x.room_id, x.start_time, x.end_time, NoExclude))
        => /\ (IF variant = "legacy"
               THEN bookings_service_check_availability(
                        bookings, x.room_id, x.start_time, x.end_time)
               ELSE services_bookings_check_availability(
                        bookings, x.room_id, x.start_time, x.end_time)).result = "Available"
           /\ \A u \in Requesters, b \in CreateBodies :
                 (/\ b.room_id = x.room_id
                  /\ b.start_time = x.start_time
                  /\ b.end_time = x.end_time
                  /\ (variant = "new" => rooms[b.room_id] = "active"))
                 => CreateOutcome(u, b).result = "Created"

\* what the update, cancel and availability handlers of the running service
\* do in the current state
UpdateBodies == IF variant = "legacy" THEN LegacyUpdateBodies ELSE NewUpdateBodies
UpdateOutcome(u, id, d) ==
    IF variant = "legacy"
    THEN bookings_service_update_booking(bookings, u, id, d)
    ELSE services_bookings_update_booking(bookings, u, id, d)
CancelOutcome(db, u, id) ==
    IF variant = "legacy"
    THEN bookings_service_cancel_booking(db, u, id)
    ELSE services_bookings_delete_booking(db, u, id)
AvailabilityOutcome(r, s, e) ==
    IF variant = "legacy"
    THEN bookings_service_check_availability(bookings, r, s, e)
    ELSE services_bookings_check_availability(bookings, r, s, e)

\* the room and interval of booking x with patch d laid over them are x's own
PatchKeepsSlot(x, d) ==
    \A k \in DOMAIN d \cap {"room_id", "start_time", "end_time"} : d[k] = x[k]

\* requester u may act on booking x: owner, admin or facility manager
Permitted(u, x) == x.user_id = u.id \/ u.role \in {"admin", "facility_manager"}

\* C11: for every stored booking X, an update of X whose merged room and
\* interval are X's current ones is never answered SlotConflict.
C11_SelfUpdateNeverConflicts ==
    \A x \in bookings, u \in Requesters, d \in UpdateBodies :
        PatchKeepsSlot(x, d) => UpdateOutcome(u, x.id, d).result # "SlotConflict"

\* C12: an update by a permitted requester whose merged room and interval
\* (start < end) overlap a confirmed booking other than the updated one is
\* answered SlotConflict and the store, the updated booking included, stays
\* as it was.
C12_UpdateConflictRejected ==
    response = NoResponse =>
    \A x \in bookings, u \in Requesters, d \in UpdateBodies :
        LET room == Get(d, "room_id", x.room_id)
            start == Get(d, "start_time", x.start_time)
            end == Get(d, "end_time", x.end_time)
        IN (/\ Permitted(u, x)
            /\ start # None /\ end # None /\ start < end
            /\ ConfirmedOverlap(bookings, room, start, end, x.id))
           => LET o == UpdateOutcome(u, x.id, d) IN
              o.result = "SlotConflict" /\ o.db = bookings

\* an update was answered SlotConflict in a store of two confirmed bookings
C12_Witness ==
    /\ response = [op |-> "update", result |-> "SlotConflict"]
    /\ Cardinality(bookings) = 2
    /\ \A b \in bookings : b.status = "confirmed"

\* C13: an update answered OK changes, of room_id, start_time and end_time,
\* only the fields its patch carries; no update changes a booking's id,
\* user_id or status, and no update touches another booking.
C13_UpdateFrame ==
    \A x \in bookings, u \in Requesters, d \in UpdateBodies :
        LET o == UpdateOutcome(u, x.id, d) IN
        /\ \A y \in bookings : y.id # x.id => y \in o.db
        /\ Cardinality(o.db) = Cardinality(bookings)
        /\ \E z \in o.db :
              /\ z.id = x.id
              /\ z.user_id = x.user_id
              /\ z.status = x.status
              /\ o.result = "OK"
                 => \A k \in {"room_id", "start_time", "end_time"} :
                       z[k] = Get(d, k, x[k])

\* C14: no step of create, update or cancel takes a booking whose status is
\* cancelled to status confirmed.
C14_NeverResurrected ==
    [][\A x \in bookings :
          x.status = "cancelled"
          => \A y \in bookings' : y.id = x.id => y.status # "confirmed"]_vars

\* C15: the status of every stored booking is confirmed or cancelled.
C15_StatusDomain ==
    \A b \in bookings : b.status \in {"confirmed", "cancelled"}

\* C16: an update of a booking whose status is cancelled, sent by a
\* requester permitted to act on it, is answered InvalidState and changes
\* nothing.
C16_UpdateOfCancelledRejected ==
    \A x \in bookings, u \in Requesters, d \in UpdateBodies :
        (x.status = "cancelled" /\ Permitted(u, x))
        => LET o == UpdateOutcome(u, x.id, d) IN
           o.result = "InvalidState" /\ o.db = bookings

\* every identity a token can carry
AnyRequester == [id : {1, 2}, role : Roles]

\* C17: cancel is idempotent: after a cancel that succeeded, the same cancel
\* succeeds again and leaves the store as the first cancel left it.
C17_CancelIdempotent ==
    \A u \in Requesters, id \in BookingIds :
        LET first == CancelOutcome(bookings, u, id) IN
        first.result = "NoContent"
        => LET second == CancelOutcome(first.db, u, id) IN
           second.result = "NoContent" /\ second.db = first.db

\* C18: an update or a cancel addressed to a booking id that is not in the
\* store is answered NotFound and leaves the store as it was.
C18_MissingIdNotFound ==
    response = NoResponse =>
    \A u \in AnyRequester, id \in BookingIds :
        (\A b \in bookings : b.id # id)
        => /\ CancelOutcome(bookings, u, id) = Outcome("NotFound", bookings)
           /\ \A d \in UpdateBodies :
                 UpdateOutcome(u, id, d) = Outcome("NotFound", bookings)

\* a cancel for an id the non-empty store does not hold was answered NotFound
C18_Witness ==
    /\ response = [op |-> "cancel", result |-> "NotFound"]
    /\ bookings # {}

C20_AvailabilityAgreesWithCreate ==
    \A u \in Requesters, b \in CreateBodies :
        b.start_time < b.end_time
        => LET a == AvailabilityOutcome(b.room_id, b.start_time, b.end_time)
               c == CreateOutcome(u, b)
           IN /\ a.result \in {"Available", "Unavailable"}
              /\ a.result = "Available" <=> c.result # "SlotConflict"

\* the handlers of the running service on a store db
CreateOn(db, u, b) ==
    IF variant = "legacy"
    THEN bookings_service_create_booking(db, u, b)
    ELSE services_bookings_create_booking(db, rooms, u, b)
UpdateOn(db, u, id, d) ==
    IF variant = "legacy"
    THEN bookings_service_update_booking(db, u, id, d)
    ELSE services_bookings_update_booking(db, u, id, d)
AvailabilityOn(db, r, s, e) ==
    IF variant = "legacy"
    THEN bookings_service_check_availability(db, r, s, e)
    ELSE services_bookings_check_availability(db, r, s, e)

\* C21: the availability check leaves the stored bookings as they are, and
\* asked again on the store it leaves, with the same arguments, it gives
\* the same answer.
C21_AvailabilityReadOnly ==
    response = NoResponse =>
    \A r \in RoomIds, s \in Times, e \in Times :
        LET a == AvailabilityOn(bookings, r, s, e) IN
        /\ a.db = bookings
        /\ AvailabilityOn(a.db, r, s, e).result = a.result

\* the availability check reported a taken slot
C21_Witness ==
    /\ response = [op |-> "availability", result |-> "SlotConflict"]
    /\ bookings # {}

\* C24: the overlap test of the services is symmetric: a stored booking A
\* is found to overlap a requested interval B exactly when B, stored in its
\* place, is found to overlap a request for A's interval; both agree with
\* the half-open overlap of the two intervals.
C24_OverlapSymmetric ==
    \A a \in bookings, s2 \in Times, e2 \in Times :
        LET r == a.room_id
            A == {Booking(a.id, a.user_id, r, a.start_time, a.end_time, "confirmed")}
            B == {Booking(a.id, a.user_id, r, s2, e2, "confirmed")}
        IN /\ has_overlap(A, r, s2, e2, NoExclude)
              = has_overlap(B, r, a.start_time, a.end_time, NoExclude)
           /\ _ensure_availability(A, r, s2, e2, NoExclude)
              = _ensure_availability(B, r, a.start_time, a.end_time, NoExclude)
           /\ has_overlap(A, r, s2, e2, NoExclude)
              = Overlaps(a.start_time, a.end_time, s2, e2)

\* the overlap test found a stored booking overlapping a requested interval
C24_Witness ==
    /\ response = [op |-> "availability", result |-> "Unavailable"]
    /\ \E b \in bookings : b.status = "confirmed"

\* the bookings of room r, and booking id whatever its room
OfRoom(db, r, id) == {y \in db : y.room_id = r \/ y.id = id}

\* C25: what create, update and the availability check answer for a room
\* depends on the bookings of that room only (and, for update, on the
\* updated booking): bookings of other rooms never make them answer
\* SlotConflict.
C25_OtherRoomsNeverConflict ==
    response = NoResponse =>
    /\ \A u \in Requesters, b \in CreateBodies :
          /\ CreateOn(bookings, u, b).result
             = CreateOn(OfRoom(bookings, b.room_id, NoExclude), u, b).result
          /\ AvailabilityOn(bookings, b.room_id, b.start_time, b.end_time).result
             = AvailabilityOn(OfRoom(bookings, b.room_id, NoExclude),
                              b.room_id, b.start_time, b.end_time).result
          /\ (\A y \in bookings : y.room_id # b.room_id)
             => CreateOn(bookings, u, b).result # "SlotConflict"
    /\ \A x \in bookings, u \in Requesters, d \in UpdateBodies :
          UpdateOn(bookings, u, x.id, d).result
          = UpdateOn(OfRoom(bookings, Get(d, "room_id", x.room_id), x.id),
                     u, x.id, d).result

\* a create went through for the interval a confirmed booking holds in
\* another room
C25_Witness ==
    /\ response = [op |-> "create", result |-> "Created"]
    /\ \E a, b \in bookings :
          /\ a.room_id # b.room_id
          /\ a.start_time = b.start_time /\ a.end_time = b.end_time
          /\ a.status = "confirmed" /\ b.status = "confirmed"

\* C26: when two updates of one booking that ran at the same time, one
\* patching start_time only and the other end_time only, were both answered
\* OK, the stored booking has start_time < end_time.
C26_PartialUpdatesKeepRange ==
    \A p, q \in Procs :
        (/\ txn[p].pc = "done" /\ txn[p].op = "update" /\ txn[p].result = "OK"
         /\ txn[q].pc = "done" /\ txn[q].op = "update" /\ txn[q].result = "OK"
         /\ txn[p].req.id = txn[q].req.id
         /\ txn[p].req.patch = {"start_time"}
         /\ txn[q].req.patch = {"end_time"})
        => \A b \in bookings : b.id = txn[p].req.id => b.start_time < b.end_time

\* C27: an update answered OK that moves a booking to another room moves it
\* to a room that exists and is active.
C27_UpdateToActiveRoomOnly ==
    \A x \in bookings, u \in Requesters, d \in UpdateBodies :
        (/\ "room_id" \in DOMAIN d
         /\ d.room_id # x.room_id
         /\ UpdateOutcome(u, x.id, d).result = "OK")
        => (d.room_id \in RoomIds /\ rooms[d.room_id] = "active")

\* C29: update reports the first failure in the order NotFound, Forbidden,
\* InvalidRange, SlotConflict, and create the first in the order
\* InvalidRange, RoomUnavailable, SlotConflict.
C29_FailureOrder ==
    /\ \A u \in Requesters, id \in BookingIds, d \in UpdateBodies :
          LET o == UpdateOutcome(u, id, d) IN
          IF \A b \in bookings : b.id # id THEN o.result = "NotFound"
          ELSE LET x == CHOOSE b \in bookings : b.id = id
                   room == Get(d, "room_id", x.room_id)
                   start == Get(d, "start_time", x.start_time)
                   end == Get(d, "end_time", x.end_time)
               IN IF ~Permitted(u, x) THEN o.result = "Forbidden"
                  ELSE IF start = None \/ end = None THEN TRUE
                  ELSE IF start >= end THEN o.result = "InvalidRange"
                  ELSE ConfirmedOverlap(bookings, room, start, end, x.id)
                       => o.result = "SlotConflict"
    /\ \A u \in Requesters, b \in CreateBodies :
          LET o == CreateOutcome(u, b) IN
          IF b.start_time >= b.end_time THEN o.result = "InvalidRange"
          ELSE IF rooms[b.room_id] # "active" THEN o.result = "RoomUnavailable"
          ELSE ConfirmedOverlap(bookings, b.room_id, b.start_time, b.end_time, NoExclude)
               => o.result = "SlotConflict"

\* ---- services/bookings: the booking_created event ----------------------
\* create_booking publishes after db.commit()/db.refresh(); the whole
\* publication sits in one try block whose except clause only logs.  The
\* handler is at "committed" between the commit and the publication; the
\* legacy service publishes nothing.
\* str(booking.start_time): the text of the datetime
str(t) == <<"str", t>>

\* the message with booking.id and booking.user_id in each other's place
booking_created_swapped_ids(booking) ==
    [event |-> "booking_created", booking_id |-> booking.user_id,
     user_id |-> booking.id, room_id |-> booking.room_id,
     start_time |-> str(booking.start_time), end_time |-> str(booking.end_time)]

\* message = {"event": "booking_created", "booking_id": booking.id, ...}
booking_created(booking) ==
    [event |-> "booking_created", booking_id |-> booking.id,
     user_id |-> booking.user_id, room_id |-> booking.room_id,
     start_time |-> str(booking.start_time), end_time |-> str(booking.end_time)]

\* an except clause that undoes the insert and answers 500
publish_failed_rolls_back(db, booking) == Outcome("ServerError", db \ {booking})

\* except Exception as e: logger.error(...), then return booking
publish_failed(db, booking) == Outcome("Created", db)

Committed(booking) == [pc |-> "committed", booking |-> booking]

EventsInit ==
    /\ variant = "new"
    /\ bookings = {}
    /\ rooms \in [RoomIds -> {"active", "inactive"}]
    /\ response = NoResponse
    /\ txn = [p \in Procs |-> Idle]
    /\ queue = << >>
    /\ room_status_cache = EmptyCache
    /\ now = 0
    /\ users = [u \in UserIds |-> NewUser]

\* create_booking up to db.refresh(booking); a failed check answers at once
create_commit_row ==
    /\ response = NoResponse
    /\ txn[1].pc = "idle"
    /\ \E u \in Requesters, b \in NewCreateBodies :
          LET r == services_bookings_create_check(bookings, rooms, b)
              db == services_bookings_create_insert(bookings, u, b) IN
          IF r # "ok"
          THEN /\ response' = [op |-> "create", result |-> r]
               /\ UNCHANGED <<bookings, txn>>
          ELSE /\ \A x \in db : x.id \in BookingIds
               /\ bookings' = db
               /\ txn' = [txn EXCEPT ![1] = Committed(CHOOSE x \in db \ bookings : TRUE)]
               /\ UNCHANGED response
    /\ UNCHANGED <<variant, rooms>>
    /\ UNCHANGED beyond_bookings

\* the try block runs to its end: the message is in the queue
publish ==
    /\ txn[1].pc = "committed"
    /\ queue' = Append(queue, booking_created(txn[1].booking))
    /\ response' = [op |-> "create", result |-> "Created"]
    /\ txn' = [txn EXCEPT ![1] = Idle]
    /\ UNCHANGED <<variant, bookings, rooms, room_status_cache, now, users>>

\* a call of the try block raises: before basic_publish (broker unreachable,
\* publish error) or after it (connection.close())
publish_error ==
    /\ txn[1].pc = "committed"
    /\ LET o == publish_failed(bookings, txn[1].booking) IN
          /\ bookings' = o.db
          /\ response' = [op |-> "create", result |-> o.result]
    /\ \E sent \in BOOLEAN :
          queue' = IF sent THEN Append(queue, booking_created(txn[1].booking)) ELSE queue
    /\ txn' = [txn EXCEPT ![1] = Idle]
    /\ UNCHANGED <<variant, rooms, room_status_cache, now, users>>

EventsNext ==
    \/ create_commit_row
    \/ publish
    \/ publish_error
    \/ receive_response

SpecEvents == EventsInit /\ [][EventsNext]_vars

\* C22: when the publication of the booking_created event fails, create
\* still answers Created and the row it committed stays in the store
\* exactly as committed (nothing is rolled back).
C22_EmissionFailureSwallowed ==
    [][ (txn[1].pc = "committed" /\ txn'[1].pc = "idle" /\ queue' = queue) =>
           /\ response' = [op |-> "create", result |-> "Created"]
           /\ bookings' = bookings
           /\ txn[1].booking \in bookings' ]_vars

\* a create answered Created whose event never reached the queue
C22_Witness ==
    /\ response = [op |-> "create", result |-> "Created"]
    /\ Len(queue) < Cardinality(bookings)
    /\ \E b \in bookings : b.status = "confirmed" /\
          \A i \in 1..Len(queue) : queue[i].booking_id # b.id

\* C23: a message enters the queue only for a row that is already
\* committed, once per booking id, with that row's id, user_id, room_id,
\* start and end; a create answered InvalidRange, RoomUnavailable or
\* SlotConflict leaves the queue as it was.
C23_EventAfterCommitOnce ==
    [][ /\ queue' # queue =>
            \E b \in bookings :
               /\ queue' = Append(queue,
                     [event |-> "booking_created", booking_id |-> b.id,
                      user_id |-> b.user_id, room_id |-> b.room_id,
                      start_time |-> str(b.start_time), end_time |-> str(b.end_time)])
               /\ \A i \in 1..Len(queue) : queue[i].booking_id # b.id
        /\ (response' # response /\
            response'.result \in {"InvalidRange", "RoomUnavailable", "SlotConflict"}) =>
               queue' = queue ]_vars

\* an event is in the queue for a stored booking, and a later create failed
C23_Witness ==
    /\ Len(queue) > 0
    /\ \E b \in bookings : queue[1].booking_id = b.id /\ b.id # b.user_id
    /\ response.op = "create"
    /\ response.result \in {"InvalidRange", "RoomUnavailable", "SlotConflict"}

\* ---- services/rooms: GET /rooms/{room_id}/status and its cache ---------
\* The rooms service answers the status of a room from room_status_cache
\* when an entry is there and computes it from the Booking table otherwise.
\* The cache lives in the rooms service; add_room, update_room and
\* delete_room drop the entry of their room.  The handlers of the bookings
\* service write the Booking table and nothing else of this state.
\* the status computed from the table at time t
status_label(db, room_id, t) ==
    IF \E b \in db : b.room_id = room_id /\ b.start_time <= t /\ b.end_time >= t
    THEN "booked" ELSE "available"

\* GET /rooms/{room_id}/status: the payload answered and the cache left
room_status(db, rms, cache, room_id, force_refresh, t) ==
    IF rms[room_id] = "missing"
    THEN [result |-> [status |-> "NotFound", checked_at |-> None], cache |-> cache]
    ELSE IF ~force_refresh /\ cache_get(cache, room_id, t) # NoPayload
    THEN [result |-> cache_get(cache, room_id, t), cache |-> cache]
    ELSE LET payload == [status |-> status_label(db, room_id, t), checked_at |-> t] IN
         [result |-> payload, cache |-> cache_set(cache, room_id, payload)]

CacheInit ==
    /\ variant = "new"
    /\ bookings = {}
    /\ rooms = [r \in RoomIds |-> "active"]
    /\ response = NoResponse
    /\ txn = [p \in Procs |-> Idle]
    /\ queue = << >>
    /\ room_status_cache = EmptyCache
    /\ now = 0
    /\ users = [u \in UserIds |-> NewUser]

\* POST /bookings of the bookings service
booking_created_for_room ==
    /\ variant = "new"
    /\ \E u \in RaceRequesters, b \in RaceCreateBodies :
       Handle("create", services_bookings_create_booking(bookings, rooms, u, b))

\* DELETE /bookings/{booking_id} of the bookings service
booking_cancelled_for_room ==
    /\ variant = "new"
    /\ \E u \in RaceRequesters, id \in BookingIds :
       Handle("cancel", services_bookings_delete_booking(bookings, u, id))

\* GET /rooms/{room_id}/status of the rooms service
get_room_status ==
    /\ response = NoResponse
    /\ \E room_id \in RoomIds, force_refresh \in BOOLEAN :
          LET o == room_status(bookings, rooms, room_status_cache, room_id,
                               force_refresh, now) IN
          /\ room_status_cache' = o.cache
          /\ response' = [op |-> "room_status", result |-> o.result.status,
                           checked_at |-> o.result.checked_at]
    /\ UNCHANGED <<variant, bookings, rooms, txn, queue, now, users>>

\* time passes
tick ==
    /\ now < MaxTime
    /\ now' = now + 1
    /\ UNCHANGED <<variant, bookings, rooms, response, txn, queue, room_status_cache, users>>

CacheNext ==
    \/ booking_created_for_room
    \/ booking_cancelled_for_room
    \/ get_room_status
    \/ tick
    \/ receive_response

SpecCache == CacheInit /\ [][CacheNext]_vars

\* C28: a step that creates or cancels a booking of a room leaves no live
\* cache entry for that room, so the next status query computes the status
\* from the table.
C28_BookingChangeInvalidatesCache ==
    [][ \A r \in RoomIds :
           {b \in bookings' : b.room_id = r} # {b \in bookings : b.room_id = r} =>
              cache_get(room_status_cache', r, now') = NoPayload ]_vars

\* ---- users_service: the MFA lifecycle -----------------------------------
\* Each handler gets current_user from the session of its request
\* (get_current_user, authenticate_user), tests it, assigns attributes and
\* commits; db.commit() writes the assigned columns of that row.  Requests
\* of one user are served by the worker threads side by side.

\* verify_totp_code(secret, code): the code is the current one of the secret
verify_totp_code(secret, code) == code = secret

\* POST /auth/login
login(user, password_ok) ==
    IF ~password_ok THEN "Unauthorized"
    ELSE IF user.mfa_enabled THEN "MfaRequired"
    ELSE "Token"

\* POST /auth/login-mfa
login_with_mfa(user, password_ok, mfa_code) ==
    IF ~password_ok THEN "Unauthorized"
    ELSE IF ~user.mfa_enabled \/ user.mfa_secret = NoneStr THEN "MfaNotEnabled"
    ELSE IF ~verify_totp_code(user.mfa_secret, mfa_code) THEN "InvalidCode"
    ELSE "Token"

\* POST /auth/mfa/setup: the test before the assignment
setup_mfa(current_user) ==
    IF current_user.mfa_enabled THEN "AlreadyEnabled" ELSE "ok"

\* POST /auth/mfa/enable: the tests before the assignment
enable_mfa(current_user, code) ==
    IF current_user.mfa_enabled THEN "AlreadyEnabled"
    ELSE IF current_user.mfa_secret = NoneStr THEN "SetupNotInitiated"
    ELSE IF ~verify_totp_code(current_user.mfa_secret, code) THEN "InvalidCode"
    ELSE "ok"

\* POST /auth/mfa/disable: the tests before the assignments
disable_mfa(current_user, code) ==
    IF ~current_user.mfa_enabled THEN "NotEnabled"
    \* pyotp.TOTP(None).verify raises
    ELSE IF current_user.mfa_secret = NoneStr THEN "ServerError"
    ELSE IF ~verify_totp_code(current_user.mfa_secret, code) THEN "InvalidCode"
    ELSE "ok"

\* db.commit(): UPDATE users SET <assigned columns> WHERE id = user_id
commit_user(us, user_id, changes) ==
    [us EXCEPT ![user_id] =
        [k \in DOMAIN us[user_id] |->
            IF k \in DOMAIN changes THEN changes[k] ELSE us[user_id][k]]]

Assigned(op, user_id, changes) ==
    [pc |-> "assigned", op |-> op, user_id |-> user_id, changes |-> changes]
Answered(op, user_id, result) ==
    [pc |-> "answered", op |-> op, user_id |-> user_id, result |-> result]

MfaInit ==
    /\ variant = "new"
    /\ bookings = {}
    /\ rooms = [r \in RoomIds |-> "active"]
    /\ response = NoResponse
    /\ txn = [p \in Procs |-> Idle]
    /\ queue = << >>
    /\ room_status_cache = EmptyCache
    /\ now = 0
    /\ users = [u \in UserIds |-> NewUser]

mfa_frame == <<variant, bookings, rooms, response, queue, room_status_cache, now>>

login_request(p) ==
    /\ txn[p].pc = "idle"
    /\ \E u \in UserIds, password_ok \in BOOLEAN :
          txn' = [txn EXCEPT ![p] = Answered("login", u, login(users[u], password_ok))]
    /\ UNCHANGED <<mfa_frame, users>>

login_with_mfa_request(p) ==
    /\ txn[p].pc = "idle"
    /\ \E u \in UserIds, password_ok \in BOOLEAN, c \in Codes :
          txn' = [txn EXCEPT ![p] =
                     Answered("login_mfa", u, login_with_mfa(users[u], password_ok, c))]
    /\ UNCHANGED <<mfa_frame, users>>

\* setup_mfa up to current_user.mfa_secret = secret
setup_mfa_assign(p) ==
    /\ txn[p].pc = "idle"
    /\ \E u \in UserIds, secret \in Secrets :
          LET r == setup_mfa(users[u]) IN
          txn' = [txn EXCEPT ![p] =
                     IF r # "ok" THEN Answered("setup", u, r)
                     ELSE Assigned("setup", u, [mfa_secret |-> secret])]
    /\ UNCHANGED <<mfa_frame, users>>

\* enable_mfa up to current_user.mfa_enabled = True
enable_mfa_assign(p) ==
    /\ txn[p].pc = "idle"
    /\ \E u \in UserIds, c \in Codes :
          LET r == enable_mfa(users[u], c) IN
          txn' = [txn EXCEPT ![p] =
                     IF r # "ok" THEN Answered("enable", u, r)
                     ELSE Assigned("enable", u, [mfa_enabled |-> TRUE])]
    /\ UNCHANGED <<mfa_frame, users>>

\* disable_mfa up to current_user.mfa_secret = None
disable_mfa_assign(p) ==
    /\ txn[p].pc = "idle"
    /\ \E u \in UserIds, c \in Codes :
          LET r == disable_mfa(users[u], c) IN
          txn' = [txn EXCEPT ![p] =
                     IF r # "ok" THEN Answered("disable", u, r)
                     ELSE Assigned("disable", u,
                                   [mfa_enabled |-> FALSE, mfa_secret |-> NoneStr])]
    /\ UNCHANGED <<mfa_frame, users>>

\* db.commit() and the return of setup_mfa, enable_mfa or disable_mfa
mfa_commit(p) ==
    /\ txn[p].pc = "assigned"
    /\ users' = commit_user(users, txn[p].user_id, txn[p].changes)
    /\ txn' = [txn EXCEPT ![p] = Answered(txn[p].op, txn[p].user_id, "OK")]
    /\ UNCHANGED mfa_frame

\* the client reads the answer
mfa_answer_read(p) ==
    /\ txn[p].pc = "answered"
    /\ txn' = [txn EXCEPT ![p] = Idle]
    /\ UNCHANGED <<mfa_frame, users>>

MfaNext ==
    \E p \in Procs :
       \/ login_request(p)
       \/ login_with_mfa_request(p)
       \/ setup_mfa_assign(p)
       \/ enable_mfa_assign(p)
       \/ disable_mfa_assign(p)
       \/ mfa_commit(p)
       \/ mfa_answer_read(p)

SpecMfa == MfaInit /\ [][MfaNext]_vars

====
